---- MODULE Spec2Model ----
(***************************************************************************)
(* A model of src/models.py: the three ETL pipelines CurrencyRate, AvgTemp *)
(* and Balance (validate -> extract -> transform -> load).                 *)
(*                                                                         *)
(* Python values are modelled with a type tag where the code tests the     *)
(* type (isinstance).  A pandas frame is a record [cols, rows]: cols is    *)
(* the sequence of column labels and rows a sequence of functions from     *)
(* the labels to cell values; a missing cell (NaN/None) is the string NaN. *)
(* Numbers are exact (integers, and means kept as sum and count).          *)
(***************************************************************************)
EXTENDS Integers, Sequences, FiniteSets, TLC

VARIABLES
    \* ---- a pipeline object and the call in progress on it
    kind,       \* "CurrencyRate" | "AvgTemp" | "Balance"
    params,     \* the constructor's arguments
    obj,        \* the constructed object's attributes, or NoObject
    pc,         \* position of the caller: init, rejected, idle, extracted, transformed, done, raised
    hist,       \* the stages invoked by the call in progress, with their outcome
    raised,     \* the exception that reached the caller, or NoError
    runs,       \* number of run() calls started on the object
    writes,     \* number of frame.to_csv calls made (Sink)
    \* ---- Balance.extract
    exArgs,     \* [start_year, end_year, hrefs]
    filenames,  \* the local list filenames (models.py:247)
    year,       \* the loop variable of models.py:254
    exFrames,   \* the local dict frames (models.py:253): year string -> file read
    exPc,       \* scan, loop, returned
    \* ---- Balance.transform
    frames,     \* the dict passed to transform (mutated in place by it)
    results,    \* the values returned by the successive calls of transform
    \* ---- CurrencyRate.transform / AvgTemp.transform
    wkKind,     \* which adapter
    by_day,     \* self.by_day
    frame,      \* the frame object passed to transform (mutated in place by it)
    wkResults   \* the outcomes of the successive calls of transform

pipeVars == <<kind, params, obj, pc, hist, raised, runs, writes>>
exVars == <<exArgs, filenames, year, exFrames, exPc>>
balVars == <<frames, results>>
wkVars == <<wkKind, by_day, frame, wkResults>>
vars == <<pipeVars, exVars, balVars, wkVars>>

NaN == "NaN"

Range(s) == {s[i] : i \in DOMAIN s}

\* ------------------------------------------------------------------------
\* Bounds of the model
MaxRuns == 2

\* ------------------------------------------------------------------------
\* Calendar (datetime): proleptic Gregorian dates [y, m, d]

IsLeap(y) == (y % 4 = 0) /\ ((y % 100 # 0) \/ (y % 400 = 0))

DaysInMonth(y, m) ==
    IF m = 2 THEN (IF IsLeap(y) THEN 29 ELSE 28)
    ELSE IF m \in {4, 6, 9, 11} THEN 30 ELSE 31

RECURSIVE DaysBeforeMonth(_, _)
DaysBeforeMonth(y, m) == IF m = 1 THEN 0 ELSE DaysBeforeMonth(y, m - 1) + DaysInMonth(y, m - 1)

DaysBeforeYear(y) == (y - 1) * 365 + ((y - 1) \div 4) - ((y - 1) \div 100) + ((y - 1) \div 400)

\* date.toordinal(): 0001-01-01 is day 1
Ymd2Ord(dte) == DaysBeforeYear(dte.y) + DaysBeforeMonth(dte.y, dte.m) + dte.d

DateLE(a, b) == Ymd2Ord(a) <= Ymd2Ord(b)

\* date + timedelta(days=1)
NextDay(dte) ==
    IF dte.d < DaysInMonth(dte.y, dte.m) THEN [y |-> dte.y, m |-> dte.m, d |-> dte.d + 1]
    ELSE IF dte.m < 12 THEN [y |-> dte.y, m |-> dte.m + 1, d |-> 1]
    ELSE [y |-> dte.y + 1, m |-> 1, d |-> 1]

\* ------------------------------------------------------------------------
\* Strings

\* s ends with the suffix suf
EndsWith(s, suf) == Len(s) >= Len(suf) /\ SubSeq(s, Len(s) - Len(suf) + 1, Len(s)) = suf

\* needle occurs in s
Contains(s, needle) ==
    \E i \in 1..(Len(s) - Len(needle) + 1) : SubSeq(s, i, i + Len(needle) - 1) = needle

\* re.search(r'\.csv$', loading_path) is not None.  Without re.MULTILINE, $
\* matches at the end of the string and just before a newline that ends it.
ReSearchCsv(loading_path) ==
    EndsWith(loading_path, ".csv") \/ EndsWith(loading_path, ".csv\n")

\* ------------------------------------------------------------------------
\* Parameter validation

\* An argument given for start_date/end_date: [type, y, m, d, sep].  type is
\* the Python type of the argument; for a str, the text is y sep m sep d
\* (2019-02-29 is [y |-> 2019, m |-> 2, d |-> 29, sep |-> "-"]).
\* datetime.strptime(text, '%Y-%m-%d'): exc is "TypeError" for a non-str
\* argument, "ValueError" when the text does not match the format or names
\* no calendar day, and "" when the date [y, m, d] is returned.
Parsed(exc, arg) == [exc |-> exc, y |-> arg.y, m |-> arg.m, d |-> arg.d]

Strptime(arg) ==
    IF arg.type # "str" THEN Parsed("TypeError", arg)
    ELSE IF arg.sep # "-" THEN Parsed("ValueError", arg)
    ELSE IF ~(arg.y \in 1..9999 /\ arg.m \in 1..12) THEN Parsed("ValueError", arg)
    ELSE IF ~(arg.d \in 1..DaysInMonth(arg.y, arg.m)) THEN Parsed("ValueError", arg)
    ELSE Parsed("", arg)

Error(exc, msg) == [exc |-> exc, msg |-> msg]
NoError == Error("", "")

\* isinstance(v, bool) / isinstance(v, int): bool is a subclass of int
IsInstanceBool(v) == v.type = "bool"
IsInstanceInt(v) == v.type \in {"int", "bool"}

\* check_input_params(start_date, end_date, loading_path, by_day): NoError when
\* it returns, otherwise the exception it raises.
check_input_params(start_date, end_date, loading_path, flag) ==
    LET s == Strptime(start_date)
        e == Strptime(end_date)
    IN  IF s.exc = "TypeError" THEN Error("TypeError", "strptime() argument 1 must be str")
        ELSE IF s.exc = "ValueError" THEN
            Error("Exception", "Parameter start_date, end_date must be an ISO 8601 date (YYYY-MM-DD)")
        ELSE IF e.exc = "TypeError" THEN Error("TypeError", "strptime() argument 1 must be str")
        ELSE IF e.exc = "ValueError" THEN
            Error("Exception", "Parameter start_date, end_date must be an ISO 8601 date (YYYY-MM-DD)")
        ELSE IF ~DateLE(s, e) THEN Error("Exception", "start_date must be <= end_date")
        ELSE IF ~ReSearchCsv(loading_path) THEN
            Error("Exception", "Parameter loading_path must end with '.csv' (Example: your_path.csv)")
        ELSE IF ~IsInstanceBool(flag) THEN Error("TypeError", "Parameter by_day must be boolean type")
        ELSE NoError

\* Balance.check_input_params(start_year, end_year, loading_path)
Balance_check_input_params(start_year, end_year, loading_path) ==
    IF ~IsInstanceInt(start_year) THEN Error("TypeError", "Parameter start_year must be integer type")
    ELSE IF ~IsInstanceInt(end_year) THEN Error("TypeError", "Parameter end_year must be integer type")
    ELSE IF start_year.val > end_year.val THEN Error("Exception", "start_year must be <= end_year")
    ELSE IF ~ReSearchCsv(loading_path) THEN
        Error("Exception", "Parameter loading_path must end with '.csv' (Example: your_path.csv)")
    ELSE NoError

\* ------------------------------------------------------------------------
\* The arguments tried

DateArgs ==
    { [type |-> "str", y |-> 2019, m |-> 12, d |-> 31, sep |-> "-"],
      [type |-> "str", y |-> 2020, m |-> 2, d |-> 29, sep |-> "-"],
      [type |-> "str", y |-> 2019, m |-> 2, d |-> 29, sep |-> "-"],
      [type |-> "str", y |-> 2020, m |-> 13, d |-> 1, sep |-> "-"],
      [type |-> "str", y |-> 2020, m |-> 2, d |-> 29, sep |-> "/"],
      [type |-> "int", y |-> 2020, m |-> 2, d |-> 29, sep |-> "-"] }

YearArgs ==
    { [type |-> "int", val |-> 1991], [type |-> "int", val |-> 1993],
      [type |-> "int", val |-> 2020], [type |-> "str", val |-> 1993] }

FlagArgs ==
    { [type |-> "bool", val |-> TRUE], [type |-> "bool", val |-> FALSE],
      [type |-> "str", val |-> TRUE], [type |-> "int", val |-> FALSE] }

Paths == {"out.csv", "out.csv\n", "out.txt", "csv", "out.csv.bak", ".csv"}

NoFlag == [type |-> "bool", val |-> FALSE]

\* ------------------------------------------------------------------------
\* The pipeline: __init__ (validation, then the attributes) and run()

Kinds == {"CurrencyRate", "AvgTemp", "Balance"}

NoObject == [constructed |-> FALSE]

Stage(name, ok) == [stage |-> name, ok |-> ok]

\* The check made first by each constructor (models.py:59, 138, 221)
Validate(k, p) ==
    IF k = "Balance" THEN Balance_check_input_params(p.start, p.end, p.path)
    ELSE check_input_params(p.start, p.end, p.path, p.flag)

\* The attributes the constructor sets once the check has returned
Attributes(k, p) ==
    IF k = "CurrencyRate" THEN
        [constructed |-> TRUE,
         start_date |-> NextDay(Strptime(p.start)), end_date |-> NextDay(Strptime(p.end)),
         loading_path |-> p.path, by_day |-> p.flag.val]
    ELSE IF k = "AvgTemp" THEN
        [constructed |-> TRUE, start_date |-> p.start, end_date |-> p.end,
         loading_path |-> p.path, by_day |-> p.flag.val]
    ELSE
        [constructed |-> TRUE, start_year |-> p.start.val, end_year |-> p.end.val,
         loading_path |-> p.path]

\* A statement of run() that raises ends the call: the statements after it
\* are not executed and the exception goes to the caller.
StageOutcomeSwallowed(ok, nextPc) == nextPc

StageOutcome(ok, nextPc) == IF ok THEN nextPc ELSE "raised"

\* What a stage of run() raises when it fails (the stage's own error)
StageError(name) == Error("Exception", name \o " failed")

exParked == exArgs = <<>> /\ filenames = <<>> /\ year = 0 /\ exFrames = <<>> /\ exPc = "parked"
balParked == frames = <<>> /\ results = <<>>
wkParked == wkKind = "" /\ by_day = FALSE /\ frame = <<>> /\ wkResults = <<>>

pipeParked ==
    /\ kind = "Balance" /\ params = <<>> /\ obj = NoObject /\ pc = "parked"
    /\ hist = <<>> /\ raised = NoError /\ runs = 0 /\ writes = 0

InitPipe ==
    /\ kind \in Kinds
    /\ \E path \in Paths :
        \/ /\ kind = "Balance"
           /\ \E s \in YearArgs, e \in YearArgs :
                params = [start |-> s, end |-> e, path |-> path, flag |-> NoFlag]
        \/ /\ kind # "Balance"
           /\ \E s \in DateArgs, e \in DateArgs, f \in FlagArgs :
                params = [start |-> s, end |-> e, path |-> path, flag |-> f]
    /\ obj = NoObject
    /\ pc = "init"
    /\ hist = <<>>
    /\ raised = NoError
    /\ runs = 0
    /\ writes = 0

\* CurrencyRate(...), AvgTemp(...), Balance(...)
Construct ==
    /\ pc = "init"
    /\ LET err == Validate(kind, params)
       IN  /\ hist' = <<Stage("validate", err = NoError)>>
           /\ raised' = err
           /\ pc' = StageOutcome(err = NoError, "idle")
           /\ obj' = IF pc' = "idle" THEN Attributes(kind, params) ELSE NoObject
    /\ UNCHANGED <<kind, params, runs, writes, exVars, balVars, wkVars>>

\* run(): frames = self.extract()
RunExtract ==
    /\ pc \in {"idle", "done", "raised"}
    /\ obj # NoObject
    /\ runs < MaxRuns
    /\ runs' = runs + 1
    /\ \E ok \in BOOLEAN :
        /\ hist' = <<Stage("extract", ok)>>
        /\ raised' = IF ok THEN NoError ELSE StageError("extract")
        /\ pc' = StageOutcome(ok, "extracted")
    /\ UNCHANGED <<kind, params, obj, writes, exVars, balVars, wkVars>>

\* run(): frame = self.transform(frames)
RunTransform ==
    /\ pc = "extracted"
    /\ \E ok \in BOOLEAN :
        /\ hist' = Append(hist, Stage("transform", ok))
        /\ raised' = IF ok THEN NoError ELSE StageError("transform")
        /\ pc' = StageOutcome(ok, "transformed")
    /\ UNCHANGED <<kind, params, obj, runs, writes, exVars, balVars, wkVars>>

\* run(): self.load(frame), i.e. frame.to_csv(self.loading_path, ...)
RunLoad ==
    /\ pc = "transformed"
    /\ writes' = writes + 1
    /\ \E ok \in BOOLEAN :
        /\ hist' = Append(hist, Stage("load", ok))
        /\ raised' = IF ok THEN NoError ELSE StageError("load")
        /\ pc' = StageOutcome(ok, "done")
    /\ UNCHANGED <<kind, params, obj, runs, exVars, balVars, wkVars>>

Init == InitPipe /\ exParked /\ balParked /\ wkParked

Next == Construct \/ RunExtract \/ RunTransform \/ RunLoad

Spec == Init /\ [][Next]_vars

\* ------------------------------------------------------------------------
\* Claims settled on the pipeline (Spec)

StageNames == [i \in DOMAIN hist |-> hist[i].stage]

IsPrefix(s, t) == Len(s) <= Len(t) /\ \A i \in DOMAIN s : s[i] = t[i]

\* C1: in every call the stages occur in the order validate (constructor),
\* then extract, transform, load (run), each at most once; a stage that
\* fails is the last one executed, load runs only on a validated object
\* after extract and transform have completed without error, and the
\* failure reaches the caller.
C1_StagesInStrictOrder ==
    /\ \/ IsPrefix(StageNames, <<"validate">>)
       \/ /\ IsPrefix(StageNames, <<"extract", "transform", "load">>)
          /\ obj # NoObject
    /\ \A i \in DOMAIN hist : ~hist[i].ok => i = Len(hist)
    /\ \A i \in DOMAIN hist :
          hist[i].stage = "load" => /\ Validate(kind, params) = NoError
                                    /\ \A j \in 1..(i - 1) : hist[j].ok
    /\ (hist # <<>> /\ ~hist[Len(hist)].ok) <=> (raised # NoError)
    /\ raised # NoError => pc \in {"rejected", "raised"}
    /\ obj # NoObject => Validate(kind, params) = NoError
    /\ writes <= runs
    /\ (runs > 0 /\ "load" \notin Range(StageNames)) => writes <= runs - 1

\* C1 witness: a run whose transform failed after a good extract: the run
\* ended there, the caller holds the error and nothing was written.
C1_Witness ==
    /\ pc = "raised"
    /\ hist = <<Stage("extract", TRUE), Stage("transform", FALSE)>>
    /\ raised = StageError("transform")
    /\ writes = 0

\* What the claim C8 calls well-formed arguments
ClaimDateOk(arg) ==
    arg.type = "str" /\ arg.sep = "-" /\ arg.y \in 1..9999 /\ arg.m \in 1..12
    /\ arg.d \in 1..DaysInMonth(arg.y, arg.m)

ClaimWellFormed ==
    IF kind = "Balance" THEN
        /\ params.start.type = "int" /\ params.end.type = "int"
        /\ params.start.val <= params.end.val
        /\ EndsWith(params.path, ".csv")
    ELSE
        /\ ClaimDateOk(params.start) /\ ClaimDateOk(params.end)
        /\ DateLE(params.start, params.end)
        /\ EndsWith(params.path, ".csv")
        /\ params.flag.type = "bool"

\* The parameters the claim C8 holds to be at fault
ClaimOffending ==
    IF kind = "Balance" THEN
        (IF params.start.type # "int" THEN {"start_year"} ELSE {})
        \cup (IF params.end.type # "int" THEN {"end_year"} ELSE {})
        \cup (IF params.start.type = "int" /\ params.end.type = "int"
                 /\ params.start.val > params.end.val
              THEN {"start_year", "end_year"} ELSE {})
        \cup (IF ~EndsWith(params.path, ".csv") THEN {"loading_path"} ELSE {})
    ELSE
        (IF ~ClaimDateOk(params.start) THEN {"start_date"} ELSE {})
        \cup (IF ~ClaimDateOk(params.end) THEN {"end_date"} ELSE {})
        \cup (IF ClaimDateOk(params.start) /\ ClaimDateOk(params.end)
                 /\ ~DateLE(params.start, params.end)
              THEN {"start_date", "end_date"} ELSE {})
        \cup (IF ~EndsWith(params.path, ".csv") THEN {"loading_path"} ELSE {})
        \cup (IF params.flag.type # "bool" THEN {"by_day"} ELSE {})

\* C8: validation succeeds exactly on well-formed arguments (parseable
\* dates or integer years with start <= end, a path ending in '.csv', a
\* boolean flag), otherwise fails with an error that names an offending
\* parameter, and has no side effect.
C8_ValidationAcceptsExactlyWellFormed ==
    pc \in {"idle", "rejected"} =>
        /\ (pc = "idle") <=> ClaimWellFormed
        /\ pc = "rejected" => \E name \in ClaimOffending : Contains(raised.msg, name)
        /\ writes = 0

\* ------------------------------------------------------------------------
\* Python helpers: str(int), dict

DigitChar(d) == SubSeq("0123456789", d + 1, d + 1)

\* str(n) for n >= 0
RECURSIVE Str(_)
Str(n) == IF n < 10 THEN DigitChar(n) ELSE Str(n \div 10) \o DigitChar(n % 10)

\* s[-2:]
Last2(s) == IF Len(s) <= 2 THEN s ELSE SubSeq(s, Len(s) - 1, Len(s))

\* A dict is the sequence of its items [key, val] in insertion order.
DictKeys(dict) == {dict[i].key : i \in DOMAIN dict}

DictGet(dict, key) == dict[CHOOSE i \in DOMAIN dict : dict[i].key = key].val

\* dict[key] = val: a new key is appended, an old key keeps its position
DictSet(dict, key, val) ==
    IF key \in DictKeys(dict)
    THEN [i \in DOMAIN dict |-> IF dict[i].key = key THEN [key |-> key, val |-> val] ELSE dict[i]]
    ELSE Append(dict, [key |-> key, val |-> val])

\* ------------------------------------------------------------------------
\* Balance.extract

BopUrl == "http://www.cbr.ru/vfs/statistics/credit_statistics/bop/"

\* The position of the leftmost "57-bop_" in href, 0 if there is none
BopAt(href) ==
    LET at == {i \in 1..(Len(href) - 6) : SubSeq(href, i, i + 6) = "57-bop_"}
    IN  IF at = {} THEN 0 ELSE CHOOSE i \in at : \A j \in at : i <= j

\* re.search(r'57-bop_.*\.xlsx$', href): match[0], or "" when there is no
\* match ($ also matches before a newline that ends the string).
ReSearchBop(href) ==
    LET i == BopAt(href)
        body == IF EndsWith(href, "\n") THEN SubSeq(href, 1, Len(href) - 1) ELSE href
    IN  IF i > 0 /\ EndsWith(body, ".xlsx") /\ Len(body) - i + 1 >= 12
        THEN SubSeq(body, i, Len(body))
        ELSE ""

\* The loop of models.py:248-251 over the hrefs of the page's anchors
RECURSIVE ScanLinks(_)
ScanLinks(hrefs) ==
    IF hrefs = <<>> THEN <<>>
    ELSE LET m == ReSearchBop(Head(hrefs))
         IN  (IF m # "" THEN <<m>> ELSE <<>>) \o ScanLinks(Tail(hrefs))

\* The file a requested year is looked up under (models.py:255-258)
FilenameForNoCombined(y) == "57-bop_" \o Last2(Str(y)) \o ".xlsx"

FilenameFor(y) ==
    IF y \in {1992, 1993} THEN "57-bop_92-93.xlsx"
    ELSE "57-bop_" \o Last2(Str(y)) \o ".xlsx"

\* The hrefs an index page may hold, in page order
HrefPool ==
    << "../",
       "/vfs/statistics/credit_statistics/bop/57-bop_92-93.xlsx",
       "57-bop_92.xlsx",
       "57-bop_94.xlsx",
       "57-bop_91.xls",
       "/vfs/statistics/credit_statistics/bop/57-bop_20.xlsx" >>

YearRanges ==
    {<<s, e>> \in (1991..1994) \X (1991..1994) : s <= e}
    \cup {<<2019, 2021>>, <<2092, 2093>>}

InitExtract ==
    /\ \E r \in YearRanges, on \in SUBSET (DOMAIN HrefPool) :
         exArgs = [start_year |-> r[1], end_year |-> r[2],
                   hrefs |-> SelectSeq([i \in DOMAIN HrefPool |-> IF i \in on THEN HrefPool[i] ELSE ""],
                                       LAMBDA h : h # "")]
    /\ filenames = <<>>
    /\ year = 0
    /\ exFrames = <<>>
    /\ exPc = "scan"

\* models.py:245-253: the index page is fetched and its links are scanned
ExtractScan ==
    /\ exPc = "scan"
    /\ filenames' = ScanLinks(exArgs.hrefs)
    /\ year' = exArgs.start_year
    /\ exFrames' = <<>>
    /\ exPc' = "loop"
    /\ UNCHANGED <<exArgs, pipeVars, balVars, wkVars>>

\* models.py:254-266: one iteration of the loop over the requested years;
\* the download of a published file may fail, which ends extract.
ExtractYear ==
    /\ exPc = "loop"
    /\ year <= exArgs.end_year
    /\ LET filename == FilenameFor(year)
       IN  IF filename \notin Range(filenames)
           THEN /\ exFrames' = exFrames
                /\ year' = year + 1
                /\ exPc' = "loop"
           ELSE \E ok \in BOOLEAN :
                IF ok
                THEN /\ exFrames' = DictSet(exFrames, Str(year), BopUrl \o filename)
                     /\ year' = year + 1
                     /\ exPc' = "loop"
                ELSE /\ exFrames' = exFrames
                     /\ year' = year
                     /\ exPc' = "raised"
    /\ UNCHANGED <<exArgs, filenames, pipeVars, balVars, wkVars>>

\* models.py:268: return frames
ExtractReturn ==
    /\ exPc = "loop"
    /\ year > exArgs.end_year
    /\ exPc' = "returned"
    /\ UNCHANGED <<exArgs, filenames, year, exFrames, pipeVars, balVars, wkVars>>

SpecExtractInit == InitExtract /\ pipeParked /\ balParked /\ wkParked

SpecExtractNext == ExtractScan \/ ExtractYear \/ ExtractReturn

SpecExtract == SpecExtractInit /\ [][SpecExtractNext]_vars

\* ------------------------------------------------------------------------
\* Claims settled on Balance.extract (SpecExtract)

TwoDigits(n) == DigitChar((n % 100) \div 10) \o DigitChar(n % 10)

\* The file the claim C3 makes a year resolve to
ClaimFile(y) ==
    IF y = 1992 \/ y = 1993 THEN "57-bop_92-93.xlsx" ELSE "57-bop_" \o TwoDigits(y) \o ".xlsx"

\* The file is published: the index page links to it (by name or by path)
ClaimPublished(file) ==
    \E i \in DOMAIN exArgs.hrefs : exArgs.hrefs[i] = file \/ EndsWith(exArgs.hrefs[i], "/" \o file)

\* C3: extract raises nothing at an unpublished year, and returns a frame
\* for exactly the years of [start_year, end_year] whose file is published,
\* 1992 and 1993 read from 57-bop_92-93.xlsx and any other year Y from
\* 57-bop_<last two digits of Y>.xlsx.
C3_ExtractCoversPublishedYears ==
    /\ exPc = "raised" => ClaimPublished(ClaimFile(year))
    /\ exPc = "returned" =>
          /\ DictKeys(exFrames) =
                {Str(y) : y \in {z \in exArgs.start_year..exArgs.end_year : ClaimPublished(ClaimFile(z))}}
          /\ Len(exFrames) = Cardinality(DictKeys(exFrames))
          /\ \A y \in exArgs.start_year..exArgs.end_year :
                ClaimPublished(ClaimFile(y)) => DictGet(exFrames, Str(y)) = BopUrl \o ClaimFile(y)

\* C3 witness: [1991, 1994] with the combined file published and no file
\* for 1991 or 1994: extract has returned frames for 1992 and 1993 only.
C3_Witness ==
    /\ exPc = "returned"
    /\ exArgs.start_year = 1991 /\ exArgs.end_year = 1994
    /\ ~ClaimPublished(ClaimFile(1991)) /\ ~ClaimPublished(ClaimFile(1994))
    /\ DictKeys(exFrames) = {"1992", "1993"}

\* ------------------------------------------------------------------------
\* pandas frames: [cols |-> sequence of labels, rows |-> sequence of rows],
\* a row being a function from the labels to the cells

Frame(cols, rows) == [cols |-> cols, rows |-> rows]

\* frame.shape
NRows(f) == Len(f.rows)
NCols(f) == Len(f.cols)

\* frame.loc[:, frame.columns.isin(keep)]
SelectColumns(f, keep) ==
    LET cols == SelectSeq(f.cols, LAMBDA c : c \in keep)
    IN  Frame(cols, [i \in DOMAIN f.rows |-> [c \in Range(cols) |-> f.rows[i][c]]])

\* frame.isna().all(axis=1): per row, every cell of every column is missing
IsNaAllQuarterColumnsOnly(f) ==
    [i \in DOMAIN f.rows |-> \A c \in Range(f.cols) \ {"Parameter"} : f.rows[i][c] = NaN]

IsNaAll(f) == [i \in DOMAIN f.rows |-> \A c \in Range(f.cols) : f.rows[i][c] = NaN]

\* mask.any()
MaskAny(mask) == \E i \in DOMAIN mask : mask[i]

\* mask.argmax(): the 0-based position of the first True
ArgMax(mask) == (CHOOSE i \in DOMAIN mask : mask[i] /\ \A j \in DOMAIN mask : mask[j] => i <= j) - 1

\* frame.iloc[:n, :]
ILocRows(f, n) == Frame(f.cols, SubSeq(f.rows, 1, n))

\* frame.dropna(how='all', subset=subset)
DropNaAll(f, subset) ==
    Frame(f.cols, SelectSeq(f.rows, LAMBDA r : \E c \in subset : r[c] # NaN))

MeltCols == <<"Parameter", "Quarter", "Amount ($M)">>

\* frame.melt(id_vars=['Parameter'], value_vars=value_vars,
\*            var_name='Quarter', value_name='Amount ($M)'):
\* the value columns one after the other, each over the rows in order
Melt(f, value_vars) ==
    LET n == NRows(f)
        cell(k) ==
            LET col == value_vars[((k - 1) \div n) + 1]
                row == f.rows[((k - 1) % n) + 1]
            IN  [c \in Range(MeltCols) |->
                    IF c = "Parameter" THEN row["Parameter"]
                    ELSE IF c = "Quarter" THEN col
                    ELSE row[col]]
    IN  Frame(MeltCols, [k \in 1..(n * Len(value_vars)) |-> cell(k)])

\* The labels of a and, after them, those of b that a lacks
RECURSIVE UnionCols(_, _)
UnionCols(a, b) ==
    IF b = <<>> THEN a
    ELSE UnionCols(IF Head(b) \in Range(a) THEN a ELSE Append(a, Head(b)), Tail(b))

RECURSIVE AllCols(_)
AllCols(fs) == IF fs = <<>> THEN <<>> ELSE UnionCols(Head(fs).cols, AllCols(Tail(fs)))

RECURSIVE AllRows(_, _)
AllRows(fs, cols) ==
    IF fs = <<>> THEN <<>>
    ELSE [i \in DOMAIN Head(fs).rows |->
            [c \in Range(cols) |->
                IF c \in Range(Head(fs).cols) THEN Head(fs).rows[i][c] ELSE NaN]]
         \o AllRows(Tail(fs), cols)

\* pd.concat(fs): the union of the columns, the rows one frame after the
\* other, a cell of a column the row's frame lacks being missing
Concat(fs) == LET cols == AllCols(fs) IN Frame(cols, AllRows(fs, cols))

\* ------------------------------------------------------------------------
\* Balance.transform

\* The quarter labels of the sheets, "I квартал", ... in the source,
\* transliterated
QuarterNames == <<"I kvartal", "II kvartal", "III kvartal", "IV kvartal">>

\* q + f' {year} г.'
QuarterLabel(i, y) == QuarterNames[i] \o " " \o y \o " g."

\* mapping (models.py:280-282): its keys in order; mapping[keys[i]] = i
MappingKeysFromZero(y) == [i \in 0..3 |-> QuarterLabel(i + 1, y)]

MappingKeys(y) == [i \in 1..4 |-> QuarterLabel(i, y)]

\* mapping[x]: 0 stands for the KeyError of a missing key
Lookup(keys, x) == IF \E i \in DOMAIN keys : keys[i] = x THEN CHOOSE i \in DOMAIN keys : keys[i] = x ELSE 0

empty_frame == Frame(<<"Parameter", "Amount ($M)", "Start_Quarter", "End_Quarter">>, <<>>)

\* models.py:290-292
TruncateAtQuarterBlankRow(f) ==
    LET mask == IsNaAllQuarterColumnsOnly(f) IN IF MaskAny(mask) THEN ILocRows(f, ArgMax(mask)) ELSE f

TruncateAtBlankRow(f) ==
    LET mask == IsNaAll(f) IN IF MaskAny(mask) THEN ILocRows(f, ArgMax(mask)) ELSE f

\* frame.columns.drop('Parameter')
QuarterColumns(f) == SelectSeq(f.cols, LAMBDA c : c # "Parameter")

\* models.py:290-293: the rows that are melted
KeptRows(f) == DropNaAll(TruncateAtBlankRow(f), Range(QuarterColumns(f)))

\* frame['Quarter'] = frame['Quarter'].apply(lambda x: mapping[x])
ApplyMapping(f, keys) ==
    Frame(f.cols, [i \in DOMAIN f.rows |-> [f.rows[i] EXCEPT !["Quarter"] = Lookup(keys, @)]])

\* The body of the loop (models.py:277-300) for one item of the dict: the
\* value the item holds afterwards
TransformYear(y, sheet) ==
    IF NRows(sheet) = 0 THEN sheet
    ELSE LET keys == MappingKeys(y)
             f == SelectColumns(sheet, {"Parameter"} \cup Range(keys))
         IN  IF NCols(f) < 2 THEN empty_frame
             ELSE LET kept == KeptRows(f)
                  IN  ApplyMapping(Melt(kept, QuarterColumns(kept)), keys)

\* A lookup of models.py:299 raised KeyError
LookupFailed(f) ==
    "Quarter" \in Range(f.cols) /\ \E i \in DOMAIN f.rows : f.rows[i]["Quarter"] = 0

\* Balance.transform(frames): [frames |-> the dict as the call leaves it,
\* ret |-> the frame returned, exc |-> the exception raised or ""]
transform(dict) ==
    IF Len(dict) = 0 THEN [frames |-> dict, ret |-> empty_frame, exc |-> ""]
    ELSE LET after == [i \in DOMAIN dict |->
                          [key |-> dict[i].key, val |-> TransformYear(dict[i].key, dict[i].val)]]
             bad == {i \in DOMAIN after : LookupFailed(after[i].val)}
         IN  IF bad = {}
             THEN [frames |-> after, ret |-> Concat([i \in DOMAIN after |-> after[i].val]), exc |-> ""]
             ELSE LET b == CHOOSE i \in bad : \A j \in bad : i <= j
                  IN  [frames |-> [i \in DOMAIN dict |-> IF i < b THEN after[i] ELSE dict[i]],
                       ret |-> empty_frame, exc |-> "KeyError"]

\* ------------------------------------------------------------------------
\* The sheets and dicts tried for Balance.transform

MaxRows == 3
MaxCalls == 2

\* The column layouts of a sheet of the year y: no quarter column, one, two,
\* and a quarter column of y beside one of another year (the combined file)
Layouts(y, other) ==
    { <<"Parameter">>,
      <<"Parameter", QuarterLabel(1, y)>>,
      <<"Parameter", QuarterLabel(1, y), QuarterLabel(2, y)>>,
      <<"Parameter", QuarterLabel(1, other), QuarterLabel(4, y)>> }

\* The cells a column may hold: missing, or the column's value
CellsOf(c) ==
    IF c = "Parameter" THEN {NaN, "X"}
    ELSE IF Contains(c, "IV kvartal") THEN {NaN, "140"}
    ELSE IF Contains(c, "II kvartal") THEN {NaN, "110"}
    ELSE {NaN, "100"}

RowsOf(cols) == {r \in [Range(cols) -> {NaN, "X", "100", "110", "140"}] : \A c \in Range(cols) : r[c] \in CellsOf(c)}

RECURSIVE SeqsUpTo(_, _)
SeqsUpTo(S, n) ==
    IF n = 0 THEN {<<>>}
    ELSE LET shorter == SeqsUpTo(S, n - 1)
         IN  shorter \cup {Append(s, x) : s \in {t \in shorter : Len(t) = n - 1}, x \in S}

Sheets(y, other) == UNION {{Frame(cols, rows) : rows \in SeqsUpTo(RowsOf(cols), MaxRows)} : cols \in Layouts(y, other)}

\* The second year's sheet of a dict of two: empty, without quarter
\* columns, one data row, and a data row after a blank row
SecondSheets(y) ==
    LET q1 == QuarterLabel(1, y)
        cols == <<"Parameter", q1>>
        row(p, v) == [c \in {"Parameter", q1} |-> IF c = "Parameter" THEN p ELSE v]
    IN  { Frame(cols, <<>>),
          Frame(<<"Parameter">>, <<[c \in {"Parameter"} |-> "X"]>>),
          Frame(cols, <<row("X", "100")>>),
          Frame(cols, <<row(NaN, NaN), row("X", "100")>>) }

Item(key, val) == [key |-> key, val |-> val]

InitBalance ==
    /\ \/ frames = <<>>
       \/ \E s \in Sheets("2020", "2021") : frames = <<Item("2020", s)>>
       \/ \E s \in Sheets("2020", "2021"), t \in SecondSheets("2021") :
            frames = <<Item("2020", s), Item("2021", t)>>
    /\ results = <<>>

\* A call Balance.transform(frames) on the dict object
BalanceTransform ==
    /\ Len(results) < MaxCalls
    /\ LET r == transform(frames)
       IN  /\ frames' = r.frames
           /\ results' = Append(results, [ret |-> r.ret, exc |-> r.exc, arg |-> frames])
    /\ UNCHANGED <<pipeVars, exVars, wkVars>>

SpecBalanceInit == InitBalance /\ pipeParked /\ exParked /\ wkParked

SpecBalanceNext == BalanceTransform

SpecBalance == SpecBalanceInit /\ [][SpecBalanceNext]_vars

\* ------------------------------------------------------------------------
\* Claims settled on Balance.transform (SpecBalance).  results[1].arg is the
\* dict as it was passed to the first call, results[1].ret the table
\* returned by it.

\* The ordinal the claims give a quarter label of the year y: 0 if the
\* label is none of the year's four
ClaimOrdinal(label, y) ==
    IF label = "I kvartal " \o y \o " g." THEN 1
    ELSE IF label = "II kvartal " \o y \o " g." THEN 2
    ELSE IF label = "III kvartal " \o y \o " g." THEN 3
    ELSE IF label = "IV kvartal " \o y \o " g." THEN 4
    ELSE 0

\* The quarter-label columns of the year y present in the sheet
ClaimQuarterCols(sheet, y) == SelectSeq(sheet.cols, LAMBDA c : ClaimOrdinal(c, y) > 0)

ClaimQuartersNull(sheet, y, r) == \A c \in Range(ClaimQuarterCols(sheet, y)) : r[c] = NaN

\* The row is blank in the sense named: "quarters" when its quarter
\* columns are all null, "whole" when its Parameter cell is null as well
ClaimBlank(sense, sheet, y, r) ==
    /\ ClaimQuartersNull(sheet, y, r)
    /\ sense = "whole" => r["Parameter"] = NaN

\* The position of the first blank row, or one past the last row
FirstBlank(sense, sheet, y) ==
    LET at == {i \in DOMAIN sheet.rows : ClaimBlank(sense, sheet, y, sheet.rows[i])}
    IN  IF at = {} THEN NRows(sheet) + 1 ELSE CHOOSE i \in at : \A j \in at : i <= j

\* The rows before that position that hold a quarter value
RowsBeforeBlank(sense, sheet, y) ==
    SelectSeq(SubSeq(sheet.rows, 1, FirstBlank(sense, sheet, y) - 1),
              LAMBDA r : ~ClaimQuartersNull(sheet, y, r))

\* The output rows of the quarter column c, as <<Parameter, amount>>
OutputOfColumn(out, c, y) ==
    LET rows == SelectSeq(out.rows, LAMBDA r : r["Quarter"] = ClaimOrdinal(c, y))
    IN  [k \in DOMAIN rows |-> <<rows[k]["Parameter"], rows[k]["Amount ($M)"]>>]

ContributionOfColumn(rows, c) == [k \in DOMAIN rows |-> <<rows[k]["Parameter"], rows[k][c]>>]

\* The sheets the first call melts: they have rows and a quarter column
FirstCallMelted ==
    {i \in DOMAIN results[1].arg :
        /\ NRows(results[1].arg[i].val) > 0
        /\ ClaimQuarterCols(results[1].arg[i].val, results[1].arg[i].key) # <<>>}

\* The rows of the sheet i contribute to the output exactly as the rows
\* before the first blank row that hold a quarter value
ContributesUpTo(sense, i) ==
    LET y == results[1].arg[i].key
        sheet == results[1].arg[i].val
        kept == RowsBeforeBlank(sense, sheet, y)
    IN  /\ frames[i].val.cols = MeltCols
        /\ \A c \in Range(ClaimQuarterCols(sheet, y)) :
              OutputOfColumn(frames[i].val, c, y) = ContributionOfColumn(kept, c)
        /\ NRows(frames[i].val) = Len(kept) * Len(ClaimQuarterCols(sheet, y))

\* C2 as claimed: a sheet is cut at the first row whose quarter columns
\* are all null, whatever its Parameter cell holds.
C2_TruncatesAtQuarterBlankRow ==
    Len(results) = 1 => \A i \in FirstCallMelted : ContributesUpTo("quarters", i)

\* C2 as amended: a sheet is cut at the first row whose Parameter cell and
\* quarter columns are all null: no output row comes from that row or a
\* later one; a row with a Parameter and no quarter value cuts nothing and
\* is only dropped; without a fully null row, every row holding a quarter
\* value contributes.
C2_TruncatesAtFullyBlankRow ==
    Len(results) = 1 => \A i \in FirstCallMelted : ContributesUpTo("whole", i)

\* C2 witness: a sheet with a data row, then a fully null row, then a row
\* holding a quarter value: the output has the first row only.
C2_Witness ==
    /\ Len(results) = 1
    /\ \E i \in FirstCallMelted :
         LET sheet == results[1].arg[i].val
             y == results[1].arg[i].key
         IN  /\ NRows(sheet) = 3
             /\ ~ClaimQuartersNull(sheet, y, sheet.rows[1])
             /\ ClaimBlank("whole", sheet, y, sheet.rows[2])
             /\ ~ClaimQuartersNull(sheet, y, sheet.rows[3])
             /\ NRows(frames[i].val) = Len(ClaimQuarterCols(sheet, y))

\* The rows the claim C4 expects of one sheet, as <<Parameter, ordinal,
\* amount>>: one per kept row and quarter-label column present
ExpectedOfSheet(sheet, y) ==
    LET qcols == ClaimQuarterCols(sheet, y)
        f == SelectColumns(sheet, {"Parameter"} \cup Range(qcols))
        kept == IF NRows(sheet) = 0 \/ qcols = <<>> THEN <<>> ELSE KeptRows(f).rows
        n == Len(kept)
    IN  [k \in 1..(n * Len(qcols)) |->
            LET c == qcols[((k - 1) \div n) + 1]
                r == kept[((k - 1) % n) + 1]
            IN  <<r["Parameter"], ClaimOrdinal(c, y), r[c]>>]

RECURSIVE ExpectedOfDict(_)
ExpectedOfDict(dict) ==
    IF dict = <<>> THEN <<>>
    ELSE ExpectedOfSheet(Head(dict).val, Head(dict).key) \o ExpectedOfDict(Tail(dict))

\* C4: the table returned holds exactly one row per kept data row and
\* quarter-label column present in the sheet, with the row's Parameter,
\* the cell's amount and the ordinal 1-4 of the label; the lookup of the
\* label never fails.
C4_OneRowPerKeptRowAndQuarter ==
    Len(results) >= 1 =>
        /\ results[1].exc = ""
        /\ LET ret == results[1].ret
               expected == ExpectedOfDict(results[1].arg)
           IN  /\ NRows(ret) = Len(expected)
               /\ \A k \in DOMAIN expected :
                     /\ ret.rows[k]["Quarter"] \in 1..4
                     /\ <<ret.rows[k]["Parameter"], ret.rows[k]["Quarter"], ret.rows[k]["Amount ($M)"]>>
                            = expected[k]

\* C4 witness: Parameter X with I = 100 and II = 110 for 2020 has given the
\* rows (X, 1, 100) and (X, 2, 110).
C4_Witness ==
    /\ Len(results) = 1
    /\ Len(results[1].arg) = 1
    /\ results[1].arg[1].val.cols = <<"Parameter", "I kvartal 2020 g.", "II kvartal 2020 g.">>
    /\ NRows(results[1].arg[1].val) = 1
    /\ NRows(results[1].ret) = 2
    /\ LET r == results[1].ret.rows
       IN  /\ <<r[1]["Parameter"], r[1]["Quarter"], r[1]["Amount ($M)"]>> = <<"X", 1, "100">>
           /\ <<r[2]["Parameter"], r[2]["Quarter"], r[2]["Amount ($M)"]>> = <<"X", 2, "110">>

\* C5: the table returned by Balance.transform always has exactly the
\* columns Parameter, Amount ($M), Start_Quarter, End_Quarter.
C5_CanonicalColumnsAlways ==
    Len(results) >= 1 =>
        /\ results[1].exc = ""
        /\ Range(results[1].ret.cols) = {"Parameter", "Amount ($M)", "Start_Quarter", "End_Quarter"}

\* The dict is an empty raw input: no frames, or frames that all have no
\* rows or no quarter column
ClaimEmptyInput(dict) ==
    \A i \in DOMAIN dict : NRows(dict[i].val) = 0 \/ ClaimQuarterCols(dict[i].val, dict[i].key) = <<>>

\* C6 (Balance): on an empty raw input transform raises nothing and returns
\* a table of no rows with exactly the documented columns.
C6_EmptyInputGivesDocumentedColumns ==
    (Len(results) >= 1 /\ ClaimEmptyInput(results[1].arg)) =>
        /\ results[1].exc = ""
        /\ NRows(results[1].ret) = 0
        /\ Range(results[1].ret.cols) = {"Parameter", "Amount ($M)", "Start_Quarter", "End_Quarter"}

\* ------------------------------------------------------------------------
\* ISO calendar (Series.dt.isocalendar())

\* The ordinal of the Monday of ISO week 1 of the year y
IsoWeek1Monday(y) ==
    LET firstday == Ymd2Ord([y |-> y, m |-> 1, d |-> 1])
        firstweekday == (firstday + 6) % 7
        week1monday == firstday - firstweekday
    IN  IF firstweekday > 3 THEN week1monday + 7 ELSE week1monday

\* isocalendar(): [year, week]
IsoCalendar(dte) ==
    LET today == Ymd2Ord(dte)
        week == (today - IsoWeek1Monday(dte.y)) \div 7
    IN  IF today < IsoWeek1Monday(dte.y)
        THEN [year |-> dte.y - 1, week |-> ((today - IsoWeek1Monday(dte.y - 1)) \div 7) + 1]
        ELSE IF week >= 52 /\ today >= IsoWeek1Monday(dte.y + 1)
        THEN [year |-> dte.y + 1, week |-> 1]
        ELSE [year |-> dte.y, week |-> week + 1]

\* frame['Date'].dt.isocalendar().week
IsoWeek(dte) == IsoCalendar(dte).week

\* ------------------------------------------------------------------------
\* Exact fractions [num, den], den > 0, in lowest terms

Abs(n) == IF n < 0 THEN -n ELSE n

RECURSIVE Gcd(_, _)
Gcd(a, b) == IF b = 0 THEN a ELSE Gcd(b, a % b)

Rat(num, den) ==
    LET g == Gcd(Abs(num), den) IN [num |-> num \div g, den |-> den \div g]

RatAdd(a, b) == Rat(a.num * b.den + b.num * a.den, a.den * b.den)

RatLE(a, b) == a.num * b.den <= b.num * a.den

\* ------------------------------------------------------------------------
\* Aggregations over a sequence of rows

RECURSIVE SumInt(_, _)
SumInt(rows, c) == IF rows = <<>> THEN 0 ELSE Head(rows)[c] + SumInt(Tail(rows), c)

RECURSIVE SumRat(_, _)
SumRat(rows, c) == IF rows = <<>> THEN Rat(0, 1) ELSE RatAdd(Head(rows)[c], SumRat(Tail(rows), c))

\* aggfunc='mean' over integers, and over fractions
MeanInt(rows, c) == Rat(SumInt(rows, c), Len(rows))
MeanRat(rows, c) == LET s == SumRat(rows, c) IN Rat(s.num, s.den * Len(rows))

\* aggfunc='min' / 'max' over integers
MaxIntInsteadOfMin(rows, c) == CHOOSE v \in {rows[i][c] : i \in DOMAIN rows} : \A i \in DOMAIN rows : v >= rows[i][c]
MinInt(rows, c) == CHOOSE v \in {rows[i][c] : i \in DOMAIN rows} : \A i \in DOMAIN rows : v <= rows[i][c]
MaxInt(rows, c) == CHOOSE v \in {rows[i][c] : i \in DOMAIN rows} : \A i \in DOMAIN rows : v >= rows[i][c]

\* aggfunc='min' / 'max' over dates
MinDate(rows, c) == CHOOSE v \in {rows[i][c] : i \in DOMAIN rows} : \A i \in DOMAIN rows : DateLE(v, rows[i][c])
MaxDate(rows, c) == CHOOSE v \in {rows[i][c] : i \in DOMAIN rows} : \A i \in DOMAIN rows : DateLE(rows[i][c], v)

\* frame.drop(columns=labels, inplace=True), the labels being columns
DropColumns(f, labels) == SelectColumns(f, Range(f.cols) \ labels)

\* frame[c] = cells, a cell per row: a new column is put last
SetColumn(f, c, cells) ==
    LET cols == IF c \in Range(f.cols) THEN f.cols ELSE Append(f.cols, c)
    IN  Frame(cols, [i \in DOMAIN f.rows |->
                        [k \in Range(cols) |-> IF k = c THEN cells[i] ELSE f.rows[i][k]]])

\* The order of groupby's sorted keys: strings by their place in the
\* sorted list of the values tried
StringOrder == <<"ESENBOGA, TU", "LFPO", "LTAC", "ORLY, FR", "USD/INR", "USD/TRY">>

StringRank(s) == CHOOSE i \in DOMAIN StringOrder : StringOrder[i] = s

\* key a sorts before key b; the keys are sequences of strings ending in the
\* week number
RECURSIVE KeyLess(_, _)
KeyLess(a, b) ==
    IF Len(a) = 1 THEN a[1] < b[1]
    ELSE IF a[1] # b[1] THEN StringRank(a[1]) < StringRank(b[1])
    ELSE KeyLess(Tail(a), Tail(b))

RECURSIVE SortKeys(_)
SortKeys(keys) ==
    IF keys = {} THEN <<>>
    ELSE LET least == CHOOSE k \in keys : \A o \in keys \ {k} : KeyLess(k, o)
         IN  <<least>> \o SortKeys(keys \ {least})

\* frame.groupby(by, as_index=False): the sorted keys, and the rows of a key
KeyOf(row, by) == [i \in DOMAIN by |-> row[by[i]]]
GroupKeys(f, by) == SortKeys({KeyOf(f.rows[i], by) : i \in DOMAIN f.rows})
GroupRows(f, by, key) == SelectSeq(f.rows, LAMBDA r : KeyOf(r, by) = key)

\* ------------------------------------------------------------------------
\* str methods

\* s.replace(old, ''): every occurrence of old is removed, left to right
RECURSIVE StrRemove(_, _)
StrRemove(s, old) ==
    IF Len(s) < Len(old) THEN s
    ELSE IF SubSeq(s, 1, Len(old)) = old THEN StrRemove(SubSeq(s, Len(old) + 1, Len(s)), old)
    ELSE SubSeq(s, 1, 1) \o StrRemove(SubSeq(s, 2, Len(s)), old)

UpperCase == "ABCDEFGHIJKLMNOPQRSTUVWXYZ"
LowerCase == "abcdefghijklmnopqrstuvwxyz"

\* The place of the letter ch in the alphabet, 0 for another character
LetterIndex(ch) ==
    LET at == {i \in 1..26 : SubSeq(UpperCase, i, i) = ch \/ SubSeq(LowerCase, i, i) = ch}
    IN  IF at = {} THEN 0 ELSE CHOOSE i \in at : TRUE

\* s.title(): a letter that follows no letter in upper case, the other
\* letters in lower case
RECURSIVE TitleFrom(_, _)
TitleFrom(s, afterLetter) ==
    IF s = "" THEN ""
    ELSE LET ch == SubSeq(s, 1, 1)
             k == LetterIndex(ch)
             out == IF k = 0 THEN ch
                    ELSE IF afterLetter THEN SubSeq(LowerCase, k, k)
                    ELSE SubSeq(UpperCase, k, k)
         IN  out \o TitleFrom(SubSeq(s, 2, Len(s)), k # 0)

Title(s) == TitleFrom(s, FALSE)

\* frame.columns = frame.columns.str.title()
TitleColumns(f) ==
    LET cols == [i \in DOMAIN f.cols |-> Title(f.cols[i])]
    IN  Frame(cols, [r \in DOMAIN f.rows |->
                        [c \in Range(cols) |->
                            f.rows[r][f.cols[CHOOSE i \in DOMAIN cols : cols[i] = c]]]])

\* ------------------------------------------------------------------------
\* CurrencyRate.transform and AvgTemp.transform.  Each gives
\* [frame |-> the frame object passed, as the call leaves it,
\*  ret |-> the frame returned, exc |-> the exception raised or ""].

NoFrame == Frame(<<>>, <<>>)

Outcome(object, ret, exc) == [frame |-> object, ret |-> ret, exc |-> exc]

CurrencyWeeklyColumns == <<"Symbol", "Start Week", "End Week", "Open", "Low", "High", "Close">>

\* models.py:94-102: a row per (Symbol, Week), without the Week column
CurrencyGroupBy(f) ==
    LET by == <<"Symbol", "Week">>
        keys == GroupKeys(f, by)
        cols == <<"Symbol", "Start_Week", "End_Week", "Open", "Low", "High", "Close">>
        agg(key) ==
            LET rows == GroupRows(f, by, key)
            IN  [c \in Range(cols) |->
                    IF c = "Symbol" THEN key[1]
                    ELSE IF c = "Start_Week" THEN MinDate(rows, "Date")
                    ELSE IF c = "End_Week" THEN MaxDate(rows, "Date")
                    ELSE IF c = "Open" THEN MeanInt(rows, "Open")
                    ELSE IF c = "Low" THEN Rat(MinInt(rows, "Low"), 1)
                    ELSE IF c = "High" THEN Rat(MaxInt(rows, "High"), 1)
                    ELSE MeanInt(rows, "Close")]
    IN  Frame(cols, [k \in DOMAIN keys |-> agg(keys[k])])

\* CurrencyRate.transform(frame)
CurrencyTransform(f, byDay) ==
    IF ~({"Adj Close", "Volume"} \subseteq Range(f.cols)) THEN Outcome(f, NoFrame, "KeyError")
    ELSE LET f1 == DropColumns(f, {"Adj Close", "Volume"})
         IN  IF NRows(f1) = 0
             THEN (IF byDay THEN Outcome(f1, f1, "") ELSE Outcome(f1, Frame(CurrencyWeeklyColumns, <<>>), ""))
             ELSE IF "Symbol" \notin Range(f1.cols) THEN Outcome(f1, NoFrame, "KeyError")
             ELSE LET renamed == [i \in DOMAIN f1.rows |-> "USD/" \o StrRemove(f1.rows[i]["Symbol"], "=X")]
                      f2 == SetColumn(f1, "Symbol", renamed)
                  IN  IF byDay THEN Outcome(f2, f2, "")
                      ELSE LET week == [i \in DOMAIN f2.rows |-> IsoWeek(f2.rows[i]["Date"])]
                               f3 == SetColumn(f2, "Week", week)
                           IN  Outcome(f3, CurrencyGroupBy(f3), "")

TempWeeklyColumns == <<"Station", "Name", "Start_Week", "End_Week", "Temp">>

\* models.py:187-192: a row per (Station, Name, Week), without the Week column
TempGroupBy(f) ==
    LET by == <<"Station", "Name", "Week">>
        keys == GroupKeys(f, by)
        agg(key) ==
            LET rows == GroupRows(f, by, key)
            IN  [c \in Range(TempWeeklyColumns) |->
                    IF c = "Station" THEN key[1]
                    ELSE IF c = "Name" THEN key[2]
                    ELSE IF c = "Start_Week" THEN MinDate(rows, "Date")
                    ELSE IF c = "End_Week" THEN MaxDate(rows, "Date")
                    ELSE MeanRat(rows, "Temp")]
    IN  Frame(TempWeeklyColumns, [k \in DOMAIN keys |-> agg(keys[k])])

\* (frame['Temp'] - 32) * 5 / 9
ToCelsius(t) == Rat((t.num - 32 * t.den) * 5, t.den * 9)

\* AvgTemp.transform(frame)
TempTransform(f, byDay) ==
    LET f1 == TitleColumns(f)
    IN  IF NRows(f1) = 0
        THEN (IF byDay THEN Outcome(f1, f1, "") ELSE Outcome(f1, Frame(TempWeeklyColumns, <<>>), ""))
        ELSE IF "Temp" \notin Range(f1.cols) THEN Outcome(f1, NoFrame, "KeyError")
        ELSE LET celsius == [i \in DOMAIN f1.rows |-> ToCelsius(f1.rows[i]["Temp"])]
                 f2 == SetColumn(f1, "Temp", celsius)
             IN  IF byDay THEN Outcome(f2, f2, "")
                 ELSE LET week == [i \in DOMAIN f2.rows |-> IsoWeek(f2.rows[i]["Date"])]
                          f3 == SetColumn(f2, "Week", week)
                      IN  Outcome(f3, TempGroupBy(f3), "")

\* ------------------------------------------------------------------------
\* The daily frames tried for CurrencyRate.transform and AvgTemp.transform

MaxDays == 3

Date(y, m, d) == [y |-> y, m |-> m, d |-> d]

\* Two days of ISO week 2019-W01, a day of 2020-W01 that lies in the
\* calendar year 2019, and a day of 2020-W53
Days == <<Date(2019, 1, 2), Date(2019, 1, 4), Date(2019, 12, 30), Date(2021, 1, 3)>>

\* A row is the observation of a slot <<day, entity>>; the rows of a frame
\* come in the order of their slots
Slots == (DOMAIN Days) \X (1..2)

SlotLess(a, b) == a[1] < b[1] \/ (a[1] = b[1] /\ a[2] < b[2])

RECURSIVE SlotSeqs(_)
SlotSeqs(n) ==
    IF n = 0 THEN {<<>>}
    ELSE LET shorter == SlotSeqs(n - 1)
         IN  shorter \cup
             UNION {{Append(s, x) : x \in {z \in Slots : s = <<>> \/ SlotLess(s[Len(s)], z)}} :
                        s \in {t \in shorter : Len(t) = n - 1}}

\* Daily quotes: two with low <= open, close <= high, and one without
Candles ==
    { [Open |-> 1, Low |-> 1, High |-> 1, Close |-> 1],
      [Open |-> 2, Low |-> 2, High |-> 3, Close |-> 3],
      [Open |-> 4, Low |-> 1, High |-> 2, Close |-> 1] }

CurrencyRawColumns == <<"Date", "Symbol", "Adj Close", "Close", "High", "Low", "Open", "Volume">>

Tickers == <<"INR=X", "TRY=X">>

CurrencyRow(slot, q) ==
    [c \in Range(CurrencyRawColumns) |->
        IF c = "Date" THEN Days[slot[1]]
        ELSE IF c = "Symbol" THEN Tickers[slot[2]]
        ELSE IF c = "Adj Close" THEN q.Close
        ELSE IF c = "Volume" THEN 0
        ELSE q[c]]

\* The frames extract may give, and an empty frame without the columns
\* Adj Close and Volume
CurrencyFrames ==
    UNION {{Frame(CurrencyRawColumns, [i \in DOMAIN s |-> CurrencyRow(s[i], q[i])]) :
                q \in [DOMAIN s -> Candles]} : s \in SlotSeqs(MaxDays)}
    \cup {Frame(<<"Date", "Symbol", "Close", "High", "Low", "Open">>, <<>>)}

TempRawColumns == <<"STATION", "DATE", "NAME", "TEMP">>

Stations == <<"LFPO", "LTAC">>
Names == <<"ORLY, FR", "ESENBOGA, TU">>

\* Daily mean temperatures in Fahrenheit
Fahrenheit == {50, -40}

TempRow(slot, t) ==
    [c \in Range(TempRawColumns) |->
        IF c = "DATE" THEN Days[slot[1]]
        ELSE IF c = "STATION" THEN Stations[slot[2]]
        ELSE IF c = "NAME" THEN Names[slot[2]]
        ELSE Rat(t, 1)]

TempFrames ==
    UNION {{Frame(TempRawColumns, [i \in DOMAIN s |-> TempRow(s[i], t[i])]) :
                t \in [DOMAIN s -> Fahrenheit]} : s \in SlotSeqs(MaxDays)}

InitWeekly ==
    /\ wkKind \in {"CurrencyRate", "AvgTemp"}
    /\ by_day \in BOOLEAN
    /\ frame \in (IF wkKind = "CurrencyRate" THEN CurrencyFrames ELSE TempFrames)
    /\ wkResults = <<>>

Call(r, arg) == [ret |-> r.ret, exc |-> r.exc, arg |-> arg]

\* A call CurrencyRate.transform(frame) on the frame object
CurrencyRateTransform ==
    /\ wkKind = "CurrencyRate"
    /\ Len(wkResults) < MaxCalls
    /\ LET r == CurrencyTransform(frame, by_day)
       IN  /\ frame' = r.frame
           /\ wkResults' = Append(wkResults, Call(r, frame))
    /\ UNCHANGED <<wkKind, by_day, pipeVars, exVars, balVars>>

\* A call AvgTemp.transform(frame) on the frame object
AvgTempTransform ==
    /\ wkKind = "AvgTemp"
    /\ Len(wkResults) < MaxCalls
    /\ LET r == TempTransform(frame, by_day)
       IN  /\ frame' = r.frame
           /\ wkResults' = Append(wkResults, Call(r, frame))
    /\ UNCHANGED <<wkKind, by_day, pipeVars, exVars, balVars>>

SpecWeeklyInit == InitWeekly /\ pipeParked /\ exParked /\ balParked

SpecWeeklyNext == CurrencyRateTransform \/ AvgTempTransform

SpecWeekly == SpecWeeklyInit /\ [][SpecWeeklyNext]_vars

\* ------------------------------------------------------------------------
\* Claims settled on the daily-to-weekly transforms (SpecWeekly).
\* wkResults[1].arg is the frame as it was passed to the first call.

FirstWeekly == Len(wkResults) >= 1 /\ ~by_day /\ NRows(wkResults[1].arg) > 0

PlausibleQuote(r) ==
    r["Low"] <= r["Open"] /\ r["Open"] <= r["High"] /\ r["Low"] <= r["Close"] /\ r["Close"] <= r["High"]

C10_BucketsLieInOneIsoWeek ==
    FirstWeekly =>
        \A k \in DOMAIN wkResults[1].ret.rows :
            LET w == wkResults[1].ret.rows[k]
            IN  /\ IsoCalendar(w["Start_Week"]) = IsoCalendar(w["End_Week"])
                /\ Ymd2Ord(w["End_Week"]) - Ymd2Ord(w["Start_Week"]) <= 6

\* C7: a second call of transform on the same raw object gives what the
\* first call gave.
C7_SecondCallGivesTheSame ==
    Len(wkResults) >= 2 =>
        /\ wkResults[2].exc = wkResults[1].exc
        /\ wkResults[2].ret = wkResults[1].ret

====
